---- MODULE Spec2Model ----
(***************************************************************************)
(* Model of the smart-unity-backend weather service                        *)
(* (src/src/api/v1/weather/weatherObserve.js, src/src/backend.js).         *)
(*                                                                         *)
(* Numbers.  A JS value that may be a number, NaN, null or a string built  *)
(* from a number is a record [t, v]: t is "num", "nan", "null" or "pct"    *)
(* (the string `${v}%`).  Weather quantities are fixed point, in           *)
(* hundredths of their unit (2550 is 25.5); coordinates are whole degrees. *)
(* An object is a record; a key whose value is undefined is a key the      *)
(* record does not have (JSON.stringify drops such keys, and the code      *)
(* reads them only through `!== undefined` and `||`).                      *)
(***************************************************************************)
EXTENDS Integers, Sequences, FiniteSets, TLC

VARIABLES
    pc,           \* position of the request handler
    req,          \* the request being handled: route and query parameters
    now,          \* the wall clock read by new Date(): [month, hour, today]
    seed,         \* which stream Math.random() draws from in this request
    coords,       \* validatedLat, validatedLon, isDesert of the handler
    userThresholds, \* the parsed thresholds of the handler
    formattedData, \* the handler's formatted weather data, once the chain has ended
    inflight,     \* outbound calls started and not yet settled
    calls,        \* outbound calls started so far, per target
    settled,      \* the adapter call that settled last, and its outcome
    ret,          \* what each adapter did: "none", "null", "data" or "threw"
    tried,        \* the sources invoked, in order
    responses,    \* the responses sent, in order
    fnCall        \* a single call of a pure function: its input and result

vars == <<pc, req, now, seed, coords, userThresholds, formattedData, inflight,
          calls, settled, ret, tried, responses, fnCall>>

handlerVars == <<pc, req, coords, userThresholds, formattedData,
                 inflight, calls, settled, ret, tried, responses>>

(***************************************************************************)
(* Bounds of the model.                                                    *)
(***************************************************************************)
\* Length of a generated historical series (the code's default is 365).
HistDays == 2
\* Longest forecast array a GMAO payload carries.
MaxGmaoDays == 2

(***************************************************************************)
(* JS values.                                                              *)
(***************************************************************************)
Num(n) == [t |-> "num", v |-> n]
NaN == [t |-> "nan", v |-> 0]
Null == [t |-> "null", v |-> 0]
Undefined == [t |-> "undefined", v |-> 0]
Pct(n) == [t |-> "pct", v |-> n]
IsNum(x) == x.t = "num"

\* !x for a value that is a number, NaN or null.
Falsy(x) == x.t \in {"nan", "null"} \/ (x.t = "num" /\ x.v = 0)

Abs(n) == IF n < 0 THEN -n ELSE n

\* Math.round on a rational p/q, q > 0: the nearest integer, halves up.
RoundDiv(p, q) == (2 * p + q) \div (2 * q)

(***************************************************************************)
(* Query parameters.  A parameter is absent, the empty string, a text that *)
(* is no number, or the decimal text of a whole number.                    *)
(***************************************************************************)
QMissing == [k |-> "missing", n |-> 0]
QEmpty == [k |-> "empty", n |-> 0]
QText == [k |-> "text", n |-> 0]
QNum(n) == [k |-> "num", n |-> n]

\* !q for a query parameter: undefined and "" are falsy, any other string truthy.
QFalsy(q) == q.k \in {"missing", "empty"}

parseFloat(q) == IF q.k = "num" THEN Num(q.n) ELSE NaN

(***************************************************************************)
(* Desert regions.                                                         *)
(***************************************************************************)
DESERT_REGIONS ==
    << [name |-> "Sahara", latMin |-> 15, latMax |-> 30, lonMin |-> -20, lonMax |-> 50],
       [name |-> "Arabian", latMin |-> 15, latMax |-> 30, lonMin |-> 35, lonMax |-> 60],
       [name |-> "Gobi", latMin |-> 35, latMax |-> 50, lonMin |-> 85, lonMax |-> 120],
       [name |-> "Australian", latMin |-> -30, latMax |-> -20, lonMin |-> 120, lonMax |-> 150],
       [name |-> "North American", latMin |-> 25, latMax |-> 40, lonMin |-> -120, lonMax |-> -100],
       [name |-> "Kalahari", latMin |-> -25, latMax |-> -15, lonMin |-> 15, lonMax |-> 25],
       [name |-> "Thar", latMin |-> 20, latMax |-> 30, lonMin |-> 65, lonMax |-> 75],
       [name |-> "Syrian", latMin |-> 30, latMax |-> 35, lonMin |-> 35, lonMax |-> 45] >>

\* A plausible slip: the upper bounds taken as exclusive.
isDesertRegion_exclusiveMax(lat, lon) ==
    /\ IsNum(lat) /\ IsNum(lon)
    /\ \E i \in DOMAIN DESERT_REGIONS :
          /\ lat.v >= DESERT_REGIONS[i].latMin /\ lat.v < DESERT_REGIONS[i].latMax
          /\ lon.v >= DESERT_REGIONS[i].lonMin /\ lon.v < DESERT_REGIONS[i].lonMax

\* DESERT_REGIONS.some(...): every comparison with NaN is false.
isDesertRegion(lat, lon) ==
    /\ IsNum(lat) /\ IsNum(lon)
    /\ \E i \in DOMAIN DESERT_REGIONS :
          /\ lat.v >= DESERT_REGIONS[i].latMin /\ lat.v <= DESERT_REGIONS[i].latMax
          /\ lon.v >= DESERT_REGIONS[i].lonMin /\ lon.v <= DESERT_REGIONS[i].lonMax

(***************************************************************************)
(* Coordinates.                                                            *)
(***************************************************************************)
RECURSIVE NormalizeDown(_), NormalizeUp(_)
\* while (normalized > 180) normalized -= 360;
NormalizeDown(n) == IF n > 180 THEN NormalizeDown(n - 360) ELSE n
\* while (normalized < -180) normalized += 360;
NormalizeUp(n) == IF n < -180 THEN NormalizeUp(n + 360) ELSE n

\* A plausible slip: the longitude wrapped once (if) and not repeatedly (while).
validateCoordinate_singleWrap(coord, type) ==
    IF coord.t = "nan" THEN Null
    ELSE IF type = "lat"
         THEN (IF coord.v >= -90 /\ coord.v <= 90 THEN coord ELSE Null)
    ELSE IF type = "lon"
         THEN Num(IF coord.v > 180 THEN coord.v - 360
                  ELSE IF coord.v < -180 THEN coord.v + 360 ELSE coord.v)
    ELSE Null

validateCoordinate(coord, type) ==
    IF coord.t = "nan" THEN Null
    ELSE IF type = "lat"
         THEN (IF coord.v >= -90 /\ coord.v <= 90 THEN coord ELSE Null)
    ELSE IF type = "lon"
         THEN Num(NormalizeUp(NormalizeDown(coord.v)))
    ELSE Null

(***************************************************************************)
(* The clock and Math.random().                                            *)
(***************************************************************************)
\* 1000 * sin((month - 6) * PI / 6) for getMonth() = 0..11, rounded.
SinMonth(m) == <<0, -500, -866, -1000, -866, -500, 0, 500, 866, 1000, 866, 500>>[m + 1]

\* 1000 * sin((hour - 12) * PI / 12) for getHours() = 0..23, rounded.
SinHour(h) ==
    <<0, -259, -500, -707, -866, -966, -1000, -966, -866, -707, -500, -259,
      0, 259, 500, 707, 866, 966, 1000, 966, 866, 707, 500, 259>>[h + 1]

\* The streams Math.random() may draw from, in hundredths (0 .. 99 stands for
\* [0, 1)): all low, all high, and the two alternations.
Seeds == {"lo", "hi", "alt", "tla"}

Rand(s, slot) ==
    CASE s = "lo" -> 0
      [] s = "hi" -> 99
      [] s = "alt" -> (IF slot % 2 = 0 THEN 0 ELSE 99)
      [] OTHER -> (IF slot % 2 = 0 THEN 99 ELSE 0)

\* |lat| < k; false when lat is NaN.
AbsLatBelow(lat, k) == IsNum(lat) /\ Abs(lat.v) < k

(***************************************************************************)
(* Synthetic climate model.  Results are in hundredths; r, r1, r2 are the  *)
(* values Math.random() returns to the call, in hundredths.                *)
(***************************************************************************)
\* Math.sin((month - 6) * Math.PI / 6) * amp, in hundredths.
Seasonal(amp) == (SinMonth(now.month) * amp) \div 10

getRealisticTemperature(lat, isDesert) ==
    IF isDesert
    THEN (IF AbsLatBelow(lat, 25) THEN 3500 ELSE 3000) + Seasonal(8)
         + (SinHour(now.hour) * 10) \div 10
    ELSE IF AbsLatBelow(lat, 15) THEN 2800 + Seasonal(2)
    ELSE IF AbsLatBelow(lat, 35) THEN 2200 + Seasonal(6)
    ELSE IF AbsLatBelow(lat, 55) THEN 1500 + Seasonal(10)
    ELSE 500 + Seasonal(8)

getRealisticMaxTemperature(lat, isDesert, r) ==
    IF isDesert
    THEN getRealisticTemperature(lat, isDesert) + 1200 + r * 5
    ELSE getRealisticTemperature(lat, isDesert) + 500 + r * 3

getRealisticMinTemperature(lat, isDesert, r) ==
    IF isDesert
    THEN getRealisticTemperature(lat, isDesert) - 1500 - r * 5
    ELSE getRealisticTemperature(lat, isDesert) - 300 - r * 2

getRealisticHumidity(lat, isDesert, r) ==
    IF isDesert THEN 2000 + r * 25
    ELSE IF AbsLatBelow(lat, 15) THEN 7500 + r * 10
    ELSE IF AbsLatBelow(lat, 35) THEN 6500 + r * 15
    ELSE 6000 + r * 20

getRealisticWindSpeed(lat, isDesert, r) ==
    IF isDesert THEN 350 + r * 3
    ELSE IF AbsLatBelow(lat, 15) THEN 300 + r * 2
    ELSE IF AbsLatBelow(lat, 35) THEN 250 + (r * 3) \div 2
    ELSE 200 + r

\* Math.random() < p ? Math.random() * k : 0
getRealisticPrecipitation(isDesert, r1, r2) ==
    IF isDesert
    THEN (IF r1 < 3 THEN r2 ELSE 0)
    ELSE (IF r1 < 30 THEN r2 * 8 ELSE 0)

getRealisticCloudCover(isDesert, r) ==
    IF isDesert THEN 500 + r * 20 ELSE 3000 + r * 50

getRealisticPressure(lat, r) ==
    IF AbsLatBelow(lat, 15) THEN 101000 + r * 5
    ELSE IF AbsLatBelow(lat, 35) THEN 101300 + r * 5
    ELSE 101500 + r * 5

(***************************************************************************)
(* Conditions, weather codes, feels-like.                                  *)
(***************************************************************************)
getNASA_WeatherCode(precipitation, humidity) ==
    IF precipitation > 1200 THEN "11"
    ELSE IF precipitation > 600 THEN "10"
    ELSE IF precipitation > 200 THEN "09"
    ELSE IF precipitation > 0 THEN "09"
    ELSE IF humidity > 8500 THEN "04"
    ELSE IF humidity > 7000 THEN "03"
    ELSE IF humidity > 6000 THEN "02"
    ELSE "01"

getNASA_WeatherCondition(precipitation, humidity, isDesert) ==
    IF precipitation > 1200 THEN "Thunderstorm"
    ELSE IF precipitation > 600 THEN "Heavy Rain"
    ELSE IF precipitation > 200 THEN "Rain"
    ELSE IF precipitation > 0 THEN "Light Rain"
    ELSE IF humidity > 8500 THEN "Overcast"
    ELSE IF humidity > 7000 THEN "Mostly Cloudy"
    ELSE IF humidity > 6000 THEN "Partly Cloudy"
    ELSE IF isDesert /\ humidity < 2500 THEN "Clear and Dry"
    ELSE IF isDesert /\ humidity < 3500 THEN "Clear Sky"
    ELSE IF isDesert THEN "Mostly Clear"
    ELSE "Clear Sky"

\* 1000 * Math.pow(windSpeed * 3.6, 0.16) for a wind speed in hundredths of
\* m/s, from a table of the power at 3.6, 7.2, 10.8, ... km/h (the value at
\* the largest table point not above the argument).
Pow016(windSpeed) ==
    LET k == windSpeed \div 100
    IN  IF k <= 0 THEN 1000
        ELSE IF k = 1 THEN 1227
        ELSE IF k = 2 THEN 1371
        ELSE IF k = 3 THEN 1463
        ELSE IF k = 4 THEN 1532
        ELSE IF k = 5 THEN 1588
        ELSE IF k = 6 THEN 1635
        ELSE 1676

\* 13.12 + 0.6215*T - 11.37*P + 0.3965*T*P with P = (V*3.6)^0.16, in hundredths.
WindChill(temp, windSpeed) ==
    1312 + (6215 * temp) \div 10000
         - (1137 * Pow016(windSpeed)) \div 1000
         + (3965 * ((temp * Pow016(windSpeed)) \div 1000)) \div 10000

\* A plausible slip: the heat branches entered above, not at, 30 and 27.
calculateNASA_FeelsLike_strictHeat(temp, humidity, windSpeed, isDesert) ==
    IF isDesert
    THEN (IF temp > 3000 THEN temp + (temp - 2500) \div 10
          ELSE IF temp <= 1500 /\ windSpeed > 200 THEN WindChill(temp, windSpeed)
          ELSE temp)
    ELSE (IF temp > 2700 THEN temp + (humidity * (temp - 2000)) \div 20000
          ELSE IF temp <= 1000 /\ windSpeed > 134 THEN WindChill(temp, windSpeed)
          ELSE temp)

calculateNASA_FeelsLike(temp, humidity, windSpeed, isDesert) ==
    IF isDesert
    THEN (IF temp >= 3000 THEN temp + (temp - 2500) \div 10
          ELSE IF temp <= 1500 /\ windSpeed > 200 THEN WindChill(temp, windSpeed)
          ELSE temp)
    ELSE (IF temp >= 2700 THEN temp + (humidity * (temp - 2000)) \div 20000
          ELSE IF temp <= 1000 /\ windSpeed > 134 THEN WindChill(temp, windSpeed)
          ELSE temp)

(***************************************************************************)
(* Forecast generators.  A date is a day number (the calendar date of      *)
(* date.toISOString().split('T')[0]); the k-th Math.random() call of day i *)
(* of a generator draws Rand(seed, 8 * i + k).                             *)
(***************************************************************************)
ClimateDay(lat, isDesert, i) ==
    LET baseTemp == getRealisticTemperature(lat, isDesert)
        maxTemp == getRealisticMaxTemperature(lat, isDesert, Rand(seed, 8 * i))
        minTemp == getRealisticMinTemperature(lat, isDesert, Rand(seed, 8 * i + 1))
        precipitation ==
            getRealisticPrecipitation(isDesert, Rand(seed, 8 * i + 2), Rand(seed, 8 * i + 3))
        humidity == getRealisticHumidity(lat, isDesert, Rand(seed, 8 * i + 4))
        windSpeed == getRealisticWindSpeed(lat, isDesert, Rand(seed, 8 * i + 5))
        pressure == getRealisticPressure(lat, Rand(seed, 8 * i + 6))
    IN  [ date |-> now.today + i,
          temperature |-> Num(baseTemp),
          max_temp |-> Num(maxTemp),
          min_temp |-> Num(minTemp),
          precipitation |-> Num(precipitation),
          wind_speed |-> Num(windSpeed),
          humidity |-> Num(humidity),
          pressure |-> Num(pressure),
          weather_code |-> getNASA_WeatherCode(precipitation, humidity),
          conditions |-> getNASA_WeatherCondition(precipitation, humidity, isDesert),
          feels_like |-> Num(calculateNASA_FeelsLike(baseTemp, humidity, windSpeed, isDesert)),
          climate_note |-> IF isDesert THEN "Desert Climate" ELSE "Standard Climate",
          model_confidence |-> Num(85 + Rand(seed, 8 * i + 7) \div 10) ]

\* for (let i = 0; i < 7; i++) forecast.push(...)
generateNASA_ClimateForecast(lat, lon, isDesert) ==
    [i \in 1..7 |-> ClimateDay(lat, isDesert, i - 1)]

\* The current record both generateNASA_Model_Data and
\* generateNASA_FromSatellite copy from forecast[0].
CurrentOfDay0(day0) ==
    [ temperature |-> day0.temperature,
      feels_like |-> day0.feels_like,
      humidity |-> day0.humidity,
      wind_speed |-> day0.wind_speed,
      pressure |-> day0.pressure,
      conditions |-> day0.conditions,
      weather_code |-> day0.weather_code ]

generateNASA_FromSatellite(lat, lon, isDesert) ==
    LET forecast == generateNASA_ClimateForecast(lat, lon, isDesert)
    IN  [ current |-> CurrentOfDay0(forecast[1])
                      @@ [ data_quality |-> "NASA Satellite Derived",
                           satellite |-> "Terra/MODIS",
                           resolution |-> "250m resolution" ],
          forecast |-> forecast ]

\* getLocationName is async and is called here without await: locationName is
\* the pending promise, which is truthy, so the `||` never takes its right side.
generateNASA_Model_Data(lat, lon, isDesert) ==
    LET forecast == generateNASA_ClimateForecast(lat, lon, isDesert)
    IN  [ current |-> CurrentOfDay0(forecast[1])
                      @@ [ data_quality |-> "NASA Climate Model Simulation",
                           model |-> "GEOS-5 Atmospheric Model",
                           simulation_type |-> "Numerical Weather Prediction" ],
          forecast |-> forecast,
          location |-> [t |-> "promise", s |-> ""],
          data_source |-> "NASA Climate Simulation",
          nasa_mission |-> "Global Modeling and Assimilation Office",
          climate_note |-> IF isDesert THEN "Desert Climate Region"
                           ELSE "Standard Climate Region",
          disclaimer |-> "Data simulated using NASA climate models and historical patterns" ]

generateNASA_Current(lat, lon, isDesert) ==
    LET temperature == getRealisticTemperature(lat, isDesert)
        humidity == getRealisticHumidity(lat, isDesert, Rand(seed, 0))
        windSpeed == getRealisticWindSpeed(lat, isDesert, Rand(seed, 1))
    IN  [ temperature |-> Num(temperature),
          feels_like |-> Num(calculateNASA_FeelsLike(temperature, humidity, windSpeed, isDesert)),
          humidity |-> Num(humidity),
          wind_speed |-> Num(windSpeed),
          pressure |-> Num(getRealisticPressure(lat, Rand(seed, 2))),
          conditions |-> IF isDesert THEN "Clear and Dry" ELSE "Clear Sky",
          weather_code |-> "01",
          data_quality |-> "NASA Climate Model" ]

(***************************************************************************)
(* Sentinel validation.                                                    *)
(***************************************************************************)
\* value !== undefined && value !== null && value !== -999 && value > -900
\* (a field a payload lacks is read as Null or Undefined; NaN > -900 is false).
isValidNASAValue(value) ==
    /\ value.t \notin {"undefined", "null", "nan"}
    /\ value.v # -99900
    /\ value.v > -90000

getValidNASAValue(value, defaultValue) ==
    IF isValidNASAValue(value) THEN value ELSE defaultValue

(***************************************************************************)
(* Response formatter.                                                     *)
(***************************************************************************)
\* Math.round(value * 10) / 10; null passes through; a string that is no
\* number ("65%") gives NaN.
formatToOneDecimal(value) ==
    IF value.t = "null" THEN value
    ELSE IF value.t = "num" THEN Num(RoundDiv(value.v, 10) * 10)
    ELSE NaN

\* `${Math.round(value)}%`; Math.round of a string that is no number is NaN,
\* which gives the string "NaN%".
formatPercentage(value) ==
    IF value.t = "null" THEN value
    ELSE IF value.t = "num" THEN Pct(RoundDiv(value.v, 100))
    ELSE [t |-> "nanpct", v |-> 0]

CurrentOneDecimalFields ==
    {"temperature", "temperature_max", "temperature_min", "wind_speed",
     "wind_speed_50m", "precipitation", "pressure", "solar_radiation", "feels_like"}

CurrentPercentFields == {"humidity", "cloud_cover"}

ForecastOneDecimalFields ==
    {"temperature", "max_temp", "min_temp", "precipitation", "wind_speed",
     "pressure", "feels_like"}

\* The object with every key of `fields` it has passed through `f`.  A key it
\* does not have is assigned undefined by the code, and stays absent here.
FormatCurrent(current) ==
    [k \in DOMAIN current |->
        IF k \in CurrentOneDecimalFields THEN formatToOneDecimal(current[k])
        ELSE IF k \in CurrentPercentFields THEN formatPercentage(current[k])
        ELSE current[k]]

FormatDay(day) ==
    [k \in DOMAIN day |->
        IF k \in ForecastOneDecimalFields THEN formatToOneDecimal(day[k])
        ELSE IF k = "humidity" THEN formatPercentage(day[k])
        ELSE day[k]]

formatWeatherData(weatherObj) ==
    [k \in DOMAIN weatherObj |->
        IF k = "current" THEN FormatCurrent(weatherObj[k])
        ELSE IF k = "forecast"
             THEN [i \in DOMAIN weatherObj[k] |-> FormatDay(weatherObj[k][i])]
        ELSE weatherObj[k]]

(***************************************************************************)
(* Outbound calls.  An outcome is what one fetch ends in: the timeout the  *)
(* call was given fires, the transport fails, a non-success status, a body *)
(* that is no JSON, or a parsed body.  A function that may throw returns a *)
(* completion: [threw, value].                                             *)
(***************************************************************************)
Outcome(kind) == [kind |-> kind, body |-> Null]
JsonOutcome(body) == [kind |-> "json", body |-> body]

Return(v) == [threw |-> FALSE, value |-> v]
Throw == [threw |-> TRUE, value |-> Null]

\* try { ... } catch (error) { return null; }
CatchReturnNull(completion) == IF completion.threw THEN Return(Null) ELSE completion

\* a || b for numbers in hundredths: 0 is falsy.
OrElse(a, b) == IF a = 0 THEN b ELSE a

(***************************************************************************)
(* NASA POWER.  params.X is modelled as [has, val]: whether the object has *)
(* the key of the requested date, and the value under it.                  *)
(***************************************************************************)
PowerParameters ==
    {"T2M", "T2M_MAX", "T2M_MIN", "RH2M", "WS10M", "WS50M", "PRECTOTCORR", "PS",
     "ALLSKY_SFC_SW_DWN", "CLOUD_AMT"}

\* params.X[d] ? parseFloat(params.X[d]) : -999
RawPOWER(param) ==
    IF param.has /\ ~Falsy(param.val) THEN param.val ELSE Num(-99900)

getNASA_ConditionsFromPOWER(params, isDesert) ==
    LET cloudCover ==
            getValidNASAValue(RawPOWER(params.CLOUD_AMT),
                              Num(getRealisticCloudCover(isDesert, Rand(seed, 8)))).v
        precipitation ==
            getValidNASAValue(RawPOWER(params.PRECTOTCORR),
                              Num(getRealisticPrecipitation(isDesert, Rand(seed, 9),
                                                            Rand(seed, 10)))).v
    IN  IF precipitation > 1000 THEN "Heavy Rain"
        ELSE IF precipitation > 500 THEN "Rain"
        ELSE IF precipitation > 200 THEN "Light Rain"
        ELSE IF precipitation > 0 THEN "Drizzle"
        ELSE IF cloudCover > 8000 THEN "Overcast"
        ELSE IF cloudCover > 5000 THEN "Partly Cloudy"
        ELSE IF cloudCover > 2000 THEN "Mostly Clear"
        ELSE IF isDesert THEN "Clear and Dry" ELSE "Clear Sky"

getNASA_WeatherCodeFromPOWER(params) ==
    LET precipitation == getValidNASAValue(RawPOWER(params.PRECTOTCORR), Num(0)).v
        cloudCover == getValidNASAValue(RawPOWER(params.CLOUD_AMT), Num(2000)).v
    IN  IF precipitation > 1000 THEN "11"
        ELSE IF precipitation > 500 THEN "10"
        ELSE IF precipitation > 200 THEN "09"
        ELSE IF precipitation > 0 THEN "09"
        ELSE IF cloudCover > 8000 THEN "04"
        ELSE IF cloudCover > 5000 THEN "03"
        ELSE IF cloudCover > 2000 THEN "02"
        ELSE "01"

\* 100 * Math.sin(i * 0.8) * 2 for i = 0..6, rounded.
SinDay(i) == <<0, 143, 200, 135, -12, -151, -199>>[i + 1]

\* Day i of generateNASA_ForecastFromPOWER; its k-th draw is Rand(seed, 16 + 16 * i + k).
PowerForecastDay(current, lat, isDesert, i) ==
    LET R(k) == Rand(seed, 16 + 16 * i + k)
        baseTemp == OrElse(current.temperature.v, getRealisticTemperature(lat, isDesert))
        tempVariation == SinDay(i) + (R(0) - 50) * 3
        windSpeed == OrElse(current.wind_speed.v, getRealisticWindSpeed(lat, isDesert, R(1)))
        humidity == OrElse(current.humidity.v, getRealisticHumidity(lat, isDesert, R(2)))
        precipitation ==
            OrElse(current.precipitation.v, getRealisticPrecipitation(isDesert, R(3), R(4)))
    IN  [ date |-> now.today + i,
          temperature |-> Num(baseTemp + tempVariation),
          max_temp |-> Num(baseTemp + tempVariation + 200 + R(5) * 2),
          min_temp |-> Num(baseTemp + tempVariation - 200 - R(6) * 2),
          precipitation |-> Num((precipitation * (80 + (R(7) * 40) \div 100)) \div 100),
          wind_speed |-> Num((windSpeed * (90 + (R(8) * 20) \div 100)) \div 100),
          humidity |-> Num((humidity * (95 + (R(9) * 10) \div 100)) \div 100),
          pressure |-> Num((OrElse(current.pressure.v, getRealisticPressure(lat, R(10)))
                            * (9900 + R(11) * 2)) \div 10000),
          weather_code |-> getNASA_WeatherCode(precipitation, humidity),
          conditions |-> getNASA_WeatherCondition(precipitation, humidity, isDesert),
          feels_like |-> Num(calculateNASA_FeelsLike(baseTemp + tempVariation, humidity,
                                                     windSpeed, isDesert)),
          data_based_on |-> "NASA POWER Historical Patterns",
          confidence |-> Num(75 + R(12) \div 5) ]

generateNASA_ForecastFromPOWER(current, lat, lon, isDesert) ==
    [i \in 1..7 |-> PowerForecastDay(current, lat, isDesert, i - 1)]

\* Lines 431-465: the current record and the forecast of a POWER payload that
\* has every parameter object.
PowerData(params, lat, lon, isDesert) ==
    LET temperature ==
            getValidNASAValue(RawPOWER(params.T2M), Num(getRealisticTemperature(lat, isDesert)))
        humidity ==
            getValidNASAValue(RawPOWER(params.RH2M),
                              Num(getRealisticHumidity(lat, isDesert, Rand(seed, 0))))
        windSpeed ==
            getValidNASAValue(RawPOWER(params.WS10M),
                              Num(getRealisticWindSpeed(lat, isDesert, Rand(seed, 1))))
        precipitation ==
            getValidNASAValue(RawPOWER(params.PRECTOTCORR),
                              Num(getRealisticPrecipitation(isDesert, Rand(seed, 2),
                                                            Rand(seed, 3))))
        pressure ==
            getValidNASAValue(RawPOWER(params.PS), Num(getRealisticPressure(lat, Rand(seed, 4))))
        current ==
            [ temperature |-> temperature,
              temperature_max |->
                  getValidNASAValue(RawPOWER(params.T2M_MAX),
                      Num(getRealisticMaxTemperature(lat, isDesert, Rand(seed, 5)))),
              temperature_min |->
                  getValidNASAValue(RawPOWER(params.T2M_MIN),
                      Num(getRealisticMinTemperature(lat, isDesert, Rand(seed, 6)))),
              humidity |-> humidity,
              wind_speed |-> windSpeed,
              wind_speed_50m |->
                  getValidNASAValue(RawPOWER(params.WS50M), Num((windSpeed.v * 12) \div 10)),
              precipitation |-> precipitation,
              pressure |-> pressure,
              solar_radiation |-> getValidNASAValue(RawPOWER(params.ALLSKY_SFC_SW_DWN), Null),
              cloud_cover |->
                  getValidNASAValue(RawPOWER(params.CLOUD_AMT),
                      Num(getRealisticCloudCover(isDesert, Rand(seed, 7)))),
              conditions |-> getNASA_ConditionsFromPOWER(params, isDesert),
              weather_code |-> getNASA_WeatherCodeFromPOWER(params),
              feels_like |-> Num(calculateNASA_FeelsLike(temperature.v, humidity.v,
                                                         windSpeed.v, isDesert)),
              data_quality |-> "NASA Satellite & Model Data",
              measurement_height |-> "2m above surface" ]
    IN  [ current |-> current,
          forecast |-> generateNASA_ForecastFromPOWER(current, lat, lon, isDesert) ]

\* The body of tryNASA_POWER's try block.  Reading a property of null, or a
\* date of a parameter object the payload does not have, throws a TypeError.
PowerTry(o, lat, lon, isDesert) ==
    IF o.kind \in {"timeout", "network_error"} THEN Throw
    ELSE IF o.kind = "http_error" THEN Return(Null)
    ELSE IF o.kind = "bad_json" THEN Throw
    ELSE IF o.body = Null THEN Throw
    ELSE IF "properties" \notin DOMAIN o.body THEN Return(Null)
    ELSE IF "parameter" \notin DOMAIN o.body.properties THEN Return(Null)
    ELSE LET params == o.body.properties.parameter
         IN  IF "T2M" \notin DOMAIN params \/ ~params.T2M.has THEN Return(Null)
             ELSE IF ~(PowerParameters \subseteq DOMAIN params) THEN Throw
             ELSE Return(PowerData(params, lat, lon, isDesert))

\* A plausible slip: the try block without its catch.
tryNASA_POWER_noCatch(o, lat, lon, isDesert) == PowerTry(o, lat, lon, isDesert)

tryNASA_POWER(o, lat, lon, isDesert) == CatchReturnNull(PowerTry(o, lat, lon, isDesert))

(***************************************************************************)
(* NASA GMAO.  data.forecast is modelled as [isArray, items]; an item is a *)
(* record of the fields the day carries, or Null.                          *)
(***************************************************************************)
\* day.x ? parseFloat(day.x) : -999
RawGMAO(day, field) ==
    IF field \in DOMAIN day /\ ~Falsy(day[field]) THEN day[field] ELSE Num(-99900)

\* One forEach step of processGMAO_Data; its k-th draw is Rand(seed, 8 * index + k).
GMAODay(day, lat, isDesert, index) ==
    LET R(k) == Rand(seed, 8 * index + k)
        temperature ==
            getValidNASAValue(RawGMAO(day, "temperature"),
                              Num(getRealisticTemperature(lat, isDesert)))
        humidity ==
            getValidNASAValue(RawGMAO(day, "humidity"),
                              Num(getRealisticHumidity(lat, isDesert, R(0))))
        windSpeed ==
            getValidNASAValue(RawGMAO(day, "wind_speed"),
                              Num(getRealisticWindSpeed(lat, isDesert, R(1))))
        precipitation ==
            getValidNASAValue(RawGMAO(day, "precipitation"),
                              Num(getRealisticPrecipitation(isDesert, R(2), R(3))))
        pressure ==
            getValidNASAValue(RawGMAO(day, "pressure"), Num(getRealisticPressure(lat, R(4))))
    IN  [ date |-> now.today + index,
          temperature |-> temperature,
          max_temp |-> getValidNASAValue(RawGMAO(day, "temp_max"),
                           Num(getRealisticMaxTemperature(lat, isDesert, R(5)))),
          min_temp |-> getValidNASAValue(RawGMAO(day, "temp_min"),
                           Num(getRealisticMinTemperature(lat, isDesert, R(6)))),
          precipitation |-> precipitation,
          wind_speed |-> windSpeed,
          humidity |-> humidity,
          pressure |-> pressure,
          weather_code |-> getNASA_WeatherCode(precipitation.v, humidity.v),
          conditions |-> getNASA_WeatherCondition(precipitation.v, humidity.v, isDesert),
          feels_like |-> Num(calculateNASA_FeelsLike(temperature.v, humidity.v,
                                                     windSpeed.v, isDesert)) ]

\* A plausible slip: current derived from the last forecast day.
processGMAO_Data_lastDay(gmaoData, lat, lon, isDesert) ==
    LET items == gmaoData.forecast.items
        forecast == [i \in DOMAIN items |-> GMAODay(items[i], lat, isDesert, i - 1)]
        current ==
            IF Len(items) > 0
            THEN CurrentOfDay0(forecast[Len(items)])
                 @@ [ data_quality |-> "NASA GEOS Forecast Model",
                      model_resolution |-> "0.25 grid spacing" ]
            ELSE generateNASA_Current(lat, lon, isDesert)
    IN  [current |-> current, forecast |-> forecast]

\* processGMAO_Data on a forecast that is an array without null items.
processGMAO_Data(gmaoData, lat, lon, isDesert) ==
    LET items == gmaoData.forecast.items
        forecast == [i \in DOMAIN items |-> GMAODay(items[i], lat, isDesert, i - 1)]
        current ==
            IF Len(items) > 0
            THEN CurrentOfDay0(forecast[1])
                 @@ [ data_quality |-> "NASA GEOS Forecast Model",
                      model_resolution |-> "0.25 grid spacing" ]
            ELSE generateNASA_Current(lat, lon, isDesert)
    IN  [current |-> current, forecast |-> forecast]

\* The body of tryNASA_GMAO's try block.  forEach of a value that is no array,
\* and a field of a null item, throw a TypeError.
GmaoTry(o, lat, lon, isDesert) ==
    IF o.kind \in {"timeout", "network_error"} THEN Throw
    ELSE IF o.kind = "http_error" THEN Return(Null)
    ELSE IF o.kind = "bad_json" THEN Throw
    ELSE IF o.body = Null \/ "forecast" \notin DOMAIN o.body THEN Return(Null)
    ELSE IF ~o.body.forecast.isArray THEN Throw
    ELSE IF \E i \in DOMAIN o.body.forecast.items : o.body.forecast.items[i] = Null THEN Throw
    ELSE Return(processGMAO_Data(o.body, lat, lon, isDesert))


tryNASA_GMAO(o, lat, lon, isDesert) == CatchReturnNull(GmaoTry(o, lat, lon, isDesert))

(***************************************************************************)
(* NASA Worldview.  The image is not read: a success status triggers the   *)
(* synthetic forecast.                                                     *)
(***************************************************************************)
WorldviewTry(o, lat, lon, isDesert) ==
    IF o.kind \in {"timeout", "network_error"} THEN Throw
    ELSE IF o.kind = "http_error" THEN Return(Null)
    ELSE Return(generateNASA_FromSatellite(lat, lon, isDesert))


tryNASA_Worldview(o, lat, lon, isDesert) ==
    CatchReturnNull(WorldviewTry(o, lat, lon, isDesert))

(***************************************************************************)
(* Reverse geocoding.  The result is the display name or null; a location  *)
(* is [t, s] with t "str" (a string), "null", "promise" or "object".       *)
(***************************************************************************)
LocNull == [t |-> "null", s |-> ""]
LocStr(s) == [t |-> "str", s |-> s]

\* The fetch is given no timeout.  A failure inside the try is logged and
\* falls through to `return null`.
getLocationName(o) ==
    IF o.kind = "json" /\ o.body # Null /\ "display_name" \in DOMAIN o.body
    THEN LocStr(o.body.display_name)
    ELSE LocNull

(***************************************************************************)
(* Historical series and probabilities.                                    *)
(***************************************************************************)
Max(a, b) == IF a > b THEN a ELSE b
Min(a, b) == IF a < b THEN a ELSE b

\* The first Math.random() slot of each generateHistoricalData call.
HistSlot(dataType) ==
    CASE dataType = "temperature" -> 100
      [] dataType = "precipitation" -> 200
      [] dataType = "wind" -> 300
      [] OTHER -> 400

\* generateHistoricalData with days = HistDays.  variation is
\* (Math.random() - 0.5) * 2, in hundredths.
generateHistoricalData(lat, lon, isDesert, dataType) ==
    LET b == HistSlot(dataType)
        baseTemperature == getRealisticTemperature(lat, isDesert)
        basePrecipitation == getRealisticPrecipitation(isDesert, Rand(seed, b), Rand(seed, b + 1))
        baseWind == getRealisticWindSpeed(lat, isDesert, Rand(seed, b + 2))
        baseHumidity == getRealisticHumidity(lat, isDesert, Rand(seed, b + 3))
        variation(i) == (Rand(seed, b + 3 + i) - 50) * 2
    IN  [i \in 1..HistDays |->
            CASE dataType = "temperature" -> baseTemperature + variation(i) * 8
              [] dataType = "precipitation" -> Max(0, basePrecipitation + variation(i) * 3)
              [] dataType = "wind" -> Max(0, baseWind + variation(i) * 2)
              [] OTHER -> Max(1000, Min(10000, baseHumidity + variation(i) * 15))]

\* historicalData.filter(x => x > threshold).length
DaysAbove(historicalData, threshold) ==
    Cardinality({i \in DOMAIN historicalData : historicalData[i] > threshold})

\* A plausible slip: samples equal to the threshold counted as above it.
calculateProbability_atLeast(threshold, historicalData, ifEmpty) ==
    IF Len(historicalData) = 0 THEN ifEmpty
    ELSE RoundDiv(Cardinality({i \in DOMAIN historicalData :
                                  historicalData[i] >= threshold}) * 100,
                  Len(historicalData))

\* The three calculate...Probability functions differ only in the value they
\* return for an empty series.
calculateProbability(threshold, historicalData, ifEmpty) ==
    IF Len(historicalData) = 0 THEN ifEmpty
    ELSE RoundDiv(DaysAbove(historicalData, threshold) * 100, Len(historicalData))

\* A thresholds object is a function from the keys it has to their values.
\* historicalData's series are arrays, which are truthy, so the `||` never
\* generates a series here.
calculateProbabilities(thresholds, historicalData) ==
    LET key(k) == CASE k = "temperature_above" -> "temperature"
                    [] k = "precipitation_above" -> "precipitation"
                    [] OTHER -> "windSpeed"
        keys == {k \in {"temperature_above", "precipitation_above", "windspeed_above"} :
                    key(k) \in DOMAIN thresholds}
    IN  [k \in keys |->
            CASE k = "temperature_above" ->
                    calculateProbability(thresholds.temperature, historicalData.temperature, 50)
              [] k = "precipitation_above" ->
                    calculateProbability(thresholds.precipitation,
                                         historicalData.precipitation, 20)
              [] OTHER ->
                    calculateProbability(thresholds.windSpeed, historicalData.wind, 30)]

(***************************************************************************)
(* CSV export.  A cell is the text join(',') writes for the value: the     *)
(* empty string, the digits of a number (a record [t, v]), or a text.      *)
(***************************************************************************)
EmptyCell == [t |-> "empty", v |-> 0]
TextCell(s) == [t |-> "text", v |-> 0, s |-> s]

\* value || ''
CellOrEmpty(value) == IF Falsy(value) THEN EmptyCell ELSE value

\* typeof day.humidity === 'string' ? day.humidity.replace('%', '') : day.humidity || ''
HumidityCell(value) ==
    IF value.t = "pct" THEN Num(value.v * 100)
    ELSE IF value.t = "nanpct" THEN TextCell("NaN")
    ELSE CellOrEmpty(value)

CSVHeaders ==
    << "Date", "Temperature_C", "Max_Temp_C", "Min_Temp_C", "Precipitation_mm",
       "Wind_Speed_m/s", "Humidity_%", "Pressure_hPa", "Conditions" >>

CSVRow(day) ==
    << [t |-> "date", v |-> day.date],
       CellOrEmpty(day.temperature),
       CellOrEmpty(day.max_temp),
       CellOrEmpty(day.min_temp),
       CellOrEmpty(day.precipitation),
       CellOrEmpty(day.wind_speed),
       HumidityCell(day.humidity),
       CellOrEmpty(day.pressure),
       TextCell(day.conditions) >>

convertToCSV(weatherData) ==
    [ headers |-> CSVHeaders,
      rows |-> [i \in DOMAIN weatherData.forecast |-> CSVRow(weatherData.forecast[i])] ]

(***************************************************************************)
(* The error table, ErrorType.json, read once at startup.  The file is not *)
(* part of the sources at hand: the README gives 400 for missing           *)
(* parameters, the other entries are named after their kind.               *)
(***************************************************************************)
ERR ==
    [ QUERY_MISSING_ERR |->
          [HTTP_ERR_CODE |-> 400, ERR_MESSAGE |-> "QUERY_MISSING_ERR"],
      CITY_QUERY_MISSING |->
          [HTTP_ERR_CODE |-> 400, ERR_MESSAGE |-> "CITY_QUERY_MISSING"],
      API_FETCH_FAILED |->
          [HTTP_ERR_CODE |-> 500, ERR_MESSAGE |-> "API_FETCH_FAILED"],
      NON_EXISTENT_ENDPOINT |->
          [HTTP_ERR_CODE |-> 404, ERR_MESSAGE |-> "NON_EXISTENT_ENDPOINT"] ]

\* res.status(HTTP_ERR_CODE).json({ HTTP_ERR_CODE, ERR_MESSAGE })
ErrorResponse(e) ==
    [ status |-> e.HTTP_ERR_CODE, kind |-> "json",
      body |-> [HTTP_ERR_CODE |-> e.HTTP_ERR_CODE, ERR_MESSAGE |-> e.ERR_MESSAGE] ]

(***************************************************************************)
(* The environment: requests, clocks, and what the outbound services may   *)
(* answer.                                                                 *)
(***************************************************************************)
LatParams == {QMissing, QEmpty, QText, QNum(0), QNum(20), QNum(60), QNum(91)}
LonParams == {QMissing, QNum(0), QNum(10), QNum(360), QNum(370)}

EmptyObject == [k \in {} |-> 0]

\* The thresholds query parameter: absent, a text JSON.parse rejects, or a
\* JSON text with the value it parses to.
ThresholdParams ==
    { [k |-> "missing", val |-> EmptyObject],
      [k |-> "garbage", val |-> EmptyObject],
      [k |-> "json", val |-> Null],
      [k |-> "json", val |-> [temperature |-> 2000]],
      [k |-> "json", val |-> [precipitation |-> 100, windSpeed |-> 300]] }

FormatParams == {"missing", "csv", "json", "xml"}

Clocks ==
    { [month |-> 3, hour |-> 6, today |-> 100],
      [month |-> 9, hour |-> 18, today |-> 200] }

PowerParam(v) == [has |-> TRUE, val |-> Num(v)]

BasePowerParams ==
    [ T2M |-> PowerParam(2512), T2M_MAX |-> PowerParam(3004), T2M_MIN |-> PowerParam(1987),
      RH2M |-> PowerParam(6449), WS10M |-> PowerParam(333), WS50M |-> PowerParam(456),
      PRECTOTCORR |-> PowerParam(123), PS |-> PowerParam(10132),
      ALLSKY_SFC_SW_DWN |-> PowerParam(512), CLOUD_AMT |-> PowerParam(4550) ]

PowerPayload(params) == [properties |-> [parameter |-> params]]

\* Payloads that carry every parameter object: all values valid; a dry day
\* (a genuine 0); sentinels in the fields POWER often lacks; a date key missing.
FullPowerBodies ==
    { PowerPayload(BasePowerParams),
      PowerPayload([PRECTOTCORR |-> PowerParam(0)] @@ BasePowerParams),
      PowerPayload([ PRECTOTCORR |-> PowerParam(-99900), CLOUD_AMT |-> PowerParam(-99900),
                     T2M_MAX |-> PowerParam(-99900), T2M_MIN |-> PowerParam(-99900),
                     ALLSKY_SFC_SW_DWN |-> PowerParam(-99900) ] @@ BasePowerParams),
      PowerPayload([RH2M |-> [has |-> FALSE, val |-> Null]] @@ BasePowerParams) }

PowerBodies ==
    { Null,
      [message |-> "error"],
      [properties |-> [header |-> "x"]],
      PowerPayload([RH2M |-> PowerParam(6449)]),
      PowerPayload([T2M |-> [has |-> FALSE, val |-> Null]] @@ BasePowerParams),
      PowerPayload([T2M |-> PowerParam(2512)]) }
    \cup FullPowerBodies

PowerOutcomes ==
    {Outcome("network_error"), Outcome("http_error"), Outcome("bad_json")}
    \cup {JsonOutcome(b) : b \in PowerBodies}

GmaoGoodDay ==
    [ temperature |-> Num(1850), humidity |-> Num(7100), wind_speed |-> Num(410),
      precipitation |-> Num(250), pressure |-> Num(101200),
      temp_max |-> Num(2300), temp_min |-> Num(1400) ]

GmaoSparseDay ==
    [temperature |-> Num(0), precipitation |-> Num(0), humidity |-> Num(-99900)]

SeqsUpTo(S, n) == UNION {[1..k -> S] : k \in 0..n}

GmaoBodies ==
    { Null,
      [message |-> "error"],
      [forecast |-> [isArray |-> FALSE, items |-> <<>>]] }
    \cup { [forecast |-> [isArray |-> TRUE, items |-> items]] :
             items \in SeqsUpTo({GmaoGoodDay, GmaoSparseDay, Null}, MaxGmaoDays) }

GmaoOutcomes ==
    {Outcome("network_error"), Outcome("http_error"), Outcome("bad_json")}
    \cup {JsonOutcome(b) : b \in GmaoBodies}

WorldviewOutcomes == {Outcome("network_error"), Outcome("http_error"), Outcome("ok")}

GeoOutcomes ==
    { Outcome("network_error"), Outcome("http_error"), Outcome("bad_json"),
      JsonOutcome(Null),
      JsonOutcome([error |-> "Unable to geocode"]),
      JsonOutcome([display_name |-> "display_name"]) }

Providers == {"POWER", "GMAO", "WORLDVIEW"}
\* Outbound call sites: the three adapters, getLocationName awaited by the
\* handler (GEO) and getLocationName called by generateNASA_Model_Data (GEO_MODEL).
Targets == Providers \cup {"GEO", "GEO_MODEL"}

(***************************************************************************)
(* The request handlers of the weather router.  An action is one run of a  *)
(* handler from an await (or the request's arrival) to its next await or   *)
(* its end.  L carries the bookkeeping the step has done so far.           *)
(***************************************************************************)
JsonResponse(status, body) == [status |-> status, kind |-> "json", body |-> body]

\* JSON.stringify of a response body: a promise is an object without own
\* properties and is written as {}.
ToJSON(obj) ==
    [k \in DOMAIN obj |->
        IF k = "location" /\ obj[k].t = "promise" THEN [t |-> "object", s |-> ""]
        ELSE obj[k]]

Completed(completion) ==
    IF completion.threw THEN "threw"
    ELSE IF completion.value = Null THEN "null"
    ELSE "data"

Settle(target, o, completion) ==
    [ inflight |-> inflight \ {target},
      calls |-> calls,
      settled |-> [target |-> target, outcome |-> o],
      ret |-> [ret EXCEPT ![target] = Completed(completion)],
      tried |-> tried ]

StartCall(L, target) ==
    [L EXCEPT !.inflight = @ \cup {target}, !.calls[target] = @ + 1]

\* generateNASA_Model_Data is entered: it starts getLocationName, unawaited.
UseModel(L) == [StartCall(L, "GEO_MODEL") EXCEPT !.tried = Append(@, "MODEL")]

Bookkeeping(L) ==
    /\ inflight' = L.inflight
    /\ calls' = L.calls
    /\ settled' = L.settled
    /\ ret' = L.ret
    /\ tried' = L.tried

\* Lines 336-342: the catch of GET /weather.  It works on the raw query values.
WeatherCatch(qlat, qlon, L) ==
    LET lat == parseFloat(qlat)
        lon == parseFloat(qlon)
        isDesert == isDesertRegion(lat, lon)
        weatherData == generateNASA_Model_Data(lat, lon, isDesert)
        body == formatWeatherData(weatherData)
    IN  /\ pc' = "done"
        /\ formattedData' = body
        /\ responses' = Append(responses, JsonResponse(200, ToJSON(body)))
        /\ Bookkeeping(UseModel(L))

\* weatherData = await tryNASA_...(...): the handler waits for `target`.
AwaitProvider(target, L) ==
    /\ pc' = target
    /\ Bookkeeping([StartCall(L, target) EXCEPT !.tried = Append(@, target)])
    /\ UNCHANGED <<formattedData, responses>>

\* Lines 292-314: from the end of the chain to the await of getLocationName.
\* formattedData is a shallow copy of weatherData, so it carries the
\* data_source and nasa_mission weatherData has (or lacks).  Object.keys(null)
\* throws a TypeError, which the handler's catch receives.
AfterChain(weatherData, L) ==
    LET historicalData ==
            [ temperature |-> generateHistoricalData(coords.lat, coords.lon, coords.isDesert, "temperature"),
              precipitation |-> generateHistoricalData(coords.lat, coords.lon, coords.isDesert, "precipitation"),
              wind |-> generateHistoricalData(coords.lat, coords.lon, coords.isDesert, "wind"),
              humidity |-> generateHistoricalData(coords.lat, coords.lon, coords.isDesert, "humidity") ]
        formatted ==
            formatWeatherData([ historicalData |-> historicalData, lat |-> coords.lat,
                                lon |-> coords.lon, isDesert |-> coords.isDesert ]
                              @@ weatherData)
    IN  IF userThresholds = Null
        THEN WeatherCatch(req.lat, req.lon, L)
        ELSE /\ pc' = "GEO"
             /\ formattedData' =
                    IF DOMAIN userThresholds # {}
                    THEN [probabilities |-> calculateProbabilities(userThresholds, historicalData)]
                         @@ formatted
                    ELSE formatted
             /\ responses' = responses
             /\ Bookkeeping(StartCall(L, "GEO"))

\* A plausible slip: an adapter that returned null is tried once more.
ChainStep_retryOnce(completion, next, L) ==
    IF completion.threw THEN WeatherCatch(req.lat, req.lon, L)
    ELSE IF completion.value # Null THEN AfterChain(completion.value, L)
    ELSE IF L.calls[L.settled.target] < 2 THEN AwaitProvider(L.settled.target, L)
    ELSE IF next = "MODEL"
         THEN AfterChain(generateNASA_Model_Data(coords.lat, coords.lon, coords.isDesert),
                         UseModel(L))
    ELSE AwaitProvider(next, L)

\* Lines 272-290: what the handler does with an adapter's completion.
\* `next` is the adapter tried after a null, or "MODEL".
ChainStep(completion, next, L) ==
    IF completion.threw THEN WeatherCatch(req.lat, req.lon, L)
    ELSE IF completion.value # Null THEN AfterChain(completion.value, L)
    ELSE IF next = "MODEL"
         THEN AfterChain(generateNASA_Model_Data(coords.lat, coords.lon, coords.isDesert),
                         UseModel(L))
    ELSE AwaitProvider(next, L)

\* A plausible slip: only lat is tested.
QueryMissing_latOnly(qlat, qlon) == QFalsy(qlat)

\* !lat || !lon
QueryMissing(qlat, qlon) == QFalsy(qlat) \/ QFalsy(qlon)

\* Lines 263-270: JSON.parse(thresholds), {} when absent or rejected.
ParseThresholds(th) == IF th.k = "json" THEN th.val ELSE EmptyObject

\* GET /weather arrives: lines 232-275.
WeatherRequest ==
    \E qlat \in LatParams, qlon \in LonParams, th \in ThresholdParams :
        LET L == [inflight |-> inflight, calls |-> calls, settled |-> settled, ret |-> ret,
                  tried |-> tried]
            validatedLat == validateCoordinate(parseFloat(qlat), "lat")
            validatedLon == validateCoordinate(parseFloat(qlon), "lon")
        IN  /\ pc = "idle"
            /\ req' = [route |-> "weather", lat |-> qlat, lon |-> qlon, thresholds |-> th,
                       format |-> "missing"]
            /\ IF QueryMissing(qlat, qlon)
               THEN /\ pc' = "done"
                    /\ responses' = Append(responses, ErrorResponse(ERR.QUERY_MISSING_ERR))
                    /\ UNCHANGED <<coords, userThresholds, formattedData, inflight, calls,
                                   settled, ret, tried>>
               ELSE IF Falsy(validatedLat) \/ Falsy(validatedLon)
               THEN /\ WeatherCatch(qlat, qlon, L)
                    /\ UNCHANGED <<coords, userThresholds>>
               ELSE /\ coords' = [lat |-> validatedLat, lon |-> validatedLon,
                                  isDesert |-> isDesertRegion(validatedLat, validatedLon)]
                    /\ userThresholds' = ParseThresholds(th)
                    /\ AwaitProvider("POWER", L)
            /\ UNCHANGED <<now, seed, fnCall>>

\* Lines 364-383 of GET /weather/download, from tryNASA_POWER's completion.
DownloadFinish(completion, L) ==
    IF completion.threw
    THEN /\ responses' = Append(responses, JsonResponse(500, [error |-> "Download failed"]))
         /\ Bookkeeping(L)
    ELSE LET useModel == completion.value = Null
             weatherData ==
                 IF useModel
                 THEN generateNASA_Model_Data(coords.lat, coords.lon, coords.isDesert)
                 ELSE completion.value
             format == IF req.format = "missing" THEN "csv" ELSE req.format
         IN  /\ responses' = Append(responses,
                    CASE format = "csv" ->
                            [status |-> 200, kind |-> "csv", body |-> convertToCSV(weatherData)]
                      [] format = "json" -> JsonResponse(200, ToJSON(weatherData))
                      [] OTHER ->
                            JsonResponse(400, [error |-> "Unsupported format. Use csv or json."]))
             /\ Bookkeeping(IF useModel THEN UseModel(L) ELSE L)

\* GET /weather/download arrives: lines 346-364.
DownloadRequest ==
    \E qlat \in LatParams, qlon \in LonParams, fmt \in FormatParams :
        LET L == [inflight |-> inflight, calls |-> calls, settled |-> settled, ret |-> ret,
                  tried |-> tried]
            validatedLat == validateCoordinate(parseFloat(qlat), "lat")
            validatedLon == validateCoordinate(parseFloat(qlon), "lon")
        IN  /\ pc = "idle"
            /\ req' = [route |-> "download", lat |-> qlat, lon |-> qlon,
                       thresholds |-> [k |-> "missing", val |-> EmptyObject], format |-> fmt]
            /\ IF QueryMissing(qlat, qlon)
               THEN /\ pc' = "done"
                    /\ responses' = Append(responses, ErrorResponse(ERR.QUERY_MISSING_ERR))
                    /\ UNCHANGED <<coords, inflight, calls, settled, ret, tried>>
               ELSE IF Falsy(validatedLat) \/ Falsy(validatedLon)
               THEN /\ pc' = "done"
                    /\ responses' = Append(responses,
                                           JsonResponse(500, [error |-> "Download failed"]))
                    /\ UNCHANGED <<coords, inflight, calls, settled, ret, tried>>
               ELSE /\ coords' = [lat |-> validatedLat, lon |-> validatedLon,
                                  isDesert |-> isDesertRegion(validatedLat, validatedLon)]
                    /\ AwaitProvider("POWER", L)
            /\ UNCHANGED <<now, seed, userThresholds, formattedData, fnCall>>

(***************************************************************************)
(* backend.js: the middleware chain a request runs through, in the order   *)
(* of the app.use calls.  cors() passes a GET on; a router passes on a     *)
(* path that has none of its routes; the last two answer every request     *)
(* that reaches them.                                                      *)
(***************************************************************************)
MiddlewareChain == <<"cors", "weatherObserveRouter", "searchUtilRouter", "Monitor", "NotFound">>

\* Paths of GET requests that match no route of the two routers.
UnmatchedPaths == {"/", "/health", "/api/v1/unknown", "/api/v1/weather/unknown"}

RECURSIVE Dispatch(_, _)
\* The response of the first middleware from position i on that answers `path`.
Dispatch(path, i) ==
    LET mw == MiddlewareChain[i]
    IN  IF mw = "Monitor" THEN [status |-> 200, kind |-> "text", body |-> "OK"]
        ELSE IF mw = "NotFound" THEN ErrorResponse(ERR.NON_EXISTENT_ENDPOINT)
        ELSE Dispatch(path, i + 1)

\* A GET request for a path no router serves.
UnmatchedRequest ==
    \E path \in UnmatchedPaths :
        /\ pc = "idle"
        /\ req' = [req EXCEPT !.route = path]
        /\ pc' = "done"
        /\ responses' = Append(responses, Dispatch(path, 1))
        /\ UNCHANGED <<coords, userThresholds, formattedData, inflight, calls, settled,
                       ret, tried>>
        /\ UNCHANGED <<now, seed, fnCall>>

(***************************************************************************)
(* GET /api/v1/utils/search: the geocoding search proxy.                   *)
(***************************************************************************)
\* The citySrch query parameter: absent, empty, or a text.
CitySrchParams == {QMissing, QEmpty, QText}

\* What the search service may answer to axios.get: no answer, a non-2xx
\* status, a JSON array of places, or a 2xx body that is not an array.
SearchPlace(n) == [display_name |-> n, lat |-> "lat", lon |-> "lon"]

SearchOutcomes ==
    { Outcome("network_error"), Outcome("http_error"),
      JsonOutcome([t |-> "array", items |-> <<>>]),
      JsonOutcome([t |-> "array", items |-> <<SearchPlace("a")>>]),
      JsonOutcome([t |-> "array", items |-> <<SearchPlace("a"), SearchPlace("b")>>]),
      JsonOutcome([t |-> "object", items |-> <<>>]) }

\* axios.get rejects without an answer and on a non-2xx status; map is not a
\* function of a body that is not an array.
SearchThrows(o) == o.kind # "json" \/ o.body.t # "array"

\* geoRes.data.map((loc) => ({ name, lat, lon }))
SearchLocations(data) ==
    [i \in DOMAIN data.items |->
        [name |-> data.items[i].display_name, lat |-> data.items[i].lat,
         lon |-> data.items[i].lon]]

\* srchErr.toString()
SearchErrorText(o) ==
    IF o.kind = "network_error" THEN "AxiosError: Network Error"
    ELSE IF o.kind = "http_error" THEN "AxiosError: Request failed with status code"
    ELSE "TypeError: geoRes.data.map is not a function"

\* The response of the catch block.
SearchFailedResponse(o) ==
    JsonResponse(ERR.API_FETCH_FAILED.HTTP_ERR_CODE,
                 [HTTP_ERR_CODE |-> ERR.API_FETCH_FAILED.HTTP_ERR_CODE,
                  ERR_ |-> [ERR_MESSAGE |-> ERR.API_FETCH_FAILED.ERR_MESSAGE,
                            ERR_REASON |-> SearchErrorText(o)]])

\* GET /search arrives: without citySrch it is answered at once, otherwise
\* the handler starts the geocoding request and awaits it.
SearchRequest ==
    \E q \in CitySrchParams :
        /\ pc = "idle"
        /\ req' = [route |-> "search", lat |-> QMissing, lon |-> QMissing,
                   thresholds |-> [k |-> "missing", val |-> EmptyObject],
                   format |-> "missing", citySrch |-> q]
        /\ IF QFalsy(q)
           THEN /\ pc' = "done"
                /\ responses' = Append(responses, ErrorResponse(ERR.CITY_QUERY_MISSING))
                /\ UNCHANGED <<inflight, calls>>
           ELSE /\ pc' = "SEARCH"
                /\ inflight' = inflight \cup {"SEARCH"}
                /\ calls' = [calls EXCEPT !["SEARCH"] = @ + 1]
                /\ UNCHANGED responses
        /\ UNCHANGED <<coords, userThresholds, formattedData, settled, ret, tried>>
        /\ UNCHANGED <<now, seed, fnCall>>

\* The geocoding request settles. After the response of the catch block the
\* log line reads q, a name no scope declares: the ReferenceError leaves the
\* catch block and the promise of the async handler rejects.
SearchResponds ==
    \E o \in SearchOutcomes :
        /\ pc = "SEARCH"
        /\ inflight' = inflight \ {"SEARCH"}
        /\ settled' = [target |-> "SEARCH", outcome |-> o]
        /\ IF SearchThrows(o)
           THEN /\ responses' = Append(responses, SearchFailedResponse(o))
                /\ pc' = "rejected"
           ELSE /\ responses' = Append(responses,
                                       JsonResponse(200, [results |-> SearchLocations(o.body)]))
                /\ pc' = "done"
        /\ UNCHANGED <<req, coords, userThresholds, formattedData, calls, ret, tried>>
        /\ UNCHANGED <<now, seed, fnCall>>

\* The POWER call ends in outcome o and the handler that awaits it runs on.
PowerSettles(o) ==
    /\ pc = "POWER"
    /\ LET completion == tryNASA_POWER(o, coords.lat, coords.lon, coords.isDesert)
           L == Settle("POWER", o, completion)
       IN  IF req.route = "weather"
           THEN ChainStep(completion, "GMAO", L)
           ELSE /\ pc' = "done"
                /\ formattedData' = formattedData
                /\ DownloadFinish(completion, L)
    /\ UNCHANGED <<req, now, seed, coords, userThresholds, fnCall>>

GmaoSettles(o) ==
    /\ pc = "GMAO"
    /\ LET completion == tryNASA_GMAO(o, coords.lat, coords.lon, coords.isDesert)
       IN  ChainStep(completion, "WORLDVIEW", Settle("GMAO", o, completion))
    /\ UNCHANGED <<req, now, seed, coords, userThresholds, fnCall>>

WorldviewSettles(o) ==
    /\ pc = "WORLDVIEW"
    /\ LET completion == tryNASA_Worldview(o, coords.lat, coords.lon, coords.isDesert)
       IN  ChainStep(completion, "MODEL", Settle("WORLDVIEW", o, completion))
    /\ UNCHANGED <<req, now, seed, coords, userThresholds, fnCall>>

\* The service answers, or the transport fails.
PowerResponds == \E o \in PowerOutcomes : PowerSettles(o)
GmaoResponds == \E o \in GmaoOutcomes : GmaoSettles(o)
WorldviewResponds == \E o \in WorldviewOutcomes : WorldviewSettles(o)

\* The timeout given to the fetch (15000, 15000, 10000 ms) fires and the
\* fetch rejects.
PowerTimesOut == PowerSettles(Outcome("timeout"))
GmaoTimesOut == GmaoSettles(Outcome("timeout"))
WorldviewTimesOut == WorldviewSettles(Outcome("timeout"))

\* Lines 314-334: getLocationName settles and the response is sent.
GeoResponds ==
    \E o \in GeoOutcomes :
        LET locationName == getLocationName(o)
            responseData ==
                [ location |->
                      IF locationName = LocNull
                      THEN LocStr("Lat: validatedLat, Lon: validatedLon")
                      ELSE locationName,
                  coordinates |-> [lat |-> coords.lat, lon |-> coords.lon],
                  data_source |->
                      IF "data_source" \in DOMAIN formattedData
                      THEN formattedData.data_source ELSE "NASA Climate Simulation",
                  nasa_mission |->
                      IF "nasa_mission" \in DOMAIN formattedData
                      THEN formattedData.nasa_mission
                      ELSE "Global Modeling and Assimilation Office",
                  climate_note |-> IF coords.isDesert THEN "Desert Climate Region"
                                   ELSE "Standard Climate Region",
                  units |-> [ temperature |-> "C", humidity |-> "%", wind_speed |-> "m/s",
                              precipitation |-> "mm", pressure |-> "hPa" ],
                  user_thresholds |-> userThresholds,
                  timestamp |-> now ]
                @@ formattedData
        IN  /\ pc = "GEO"
            /\ pc' = "done"
            /\ responses' = Append(responses, JsonResponse(200, ToJSON(responseData)))
            /\ inflight' = inflight \ {"GEO"}
            /\ UNCHANGED <<req, now, seed, coords, userThresholds, formattedData, calls,
                           settled, ret, tried, fnCall>>

\* The getLocationName call of generateNASA_Model_Data settles; nothing reads
\* its result.
ModelGeoResponds ==
    /\ "GEO_MODEL" \in inflight
    /\ inflight' = inflight \ {"GEO_MODEL"}
    /\ UNCHANGED <<pc, req, now, seed, coords, userThresholds, formattedData, calls,
                   settled, ret, tried, responses, fnCall>>

(***************************************************************************)
(* Pure functions, applied to inputs drawn from bounded sets.              *)
(***************************************************************************)
NoCall == [fn |-> "none", args |-> <<>>, done |-> FALSE, result |-> FALSE]

BoxEdges(bounds) == {b + d : b \in bounds, d \in {-1, 0, 1}}
DesertLatPoints == BoxEdges({-30, -25, -20, -15, 15, 20, 25, 30, 35, 40, 50}) \cup {-90, 0, 90}
DesertLonPoints ==
    BoxEdges({-120, -100, -20, 15, 25, 35, 45, 50, 60, 65, 75, 85, 120, 150})
    \cup {-180, 0, 180}

ApplyIsDesertRegion ==
    /\ fnCall.fn = "isDesertRegion"
    /\ ~fnCall.done
    /\ fnCall' = [fnCall EXCEPT !.done = TRUE,
                                !.result = isDesertRegion(fnCall.args[1], fnCall.args[2])]
    /\ UNCHANGED <<now, seed>>
    /\ UNCHANGED handlerVars

\* Values around the sentinel and the cut-off, in hundredths.
ValidityInputs ==
    {Undefined, Null}
    \cup {Num(v) : v \in {-100000, -99901, -99900, -99899, -95000, -90010, -90001,
                          -90000, -89999, -89990, -100, 0, 100, 2550}}

ApplyIsValidNASAValue ==
    /\ fnCall.fn = "isValidNASAValue"
    /\ ~fnCall.done
    /\ fnCall' = [fnCall EXCEPT !.done = TRUE,
                                !.result = isValidNASAValue(fnCall.args[1])]
    /\ UNCHANGED <<now, seed>>
    /\ UNCHANGED handlerVars

\* Coordinates in degrees, around the ends of both ranges and several turns out.
CoordinateInputs ==
    {NaN}
    \cup {Num(c) : c \in {-900, -721, -720, -541, -540, -539, -190, -181, -180, -179,
                          -91, -90, -89, 0, 89, 90, 91, 179, 180, 181, 190, 360,
                          539, 540, 541, 720, 900}}

ApplyValidateCoordinate ==
    /\ fnCall.fn = "validateCoordinate"
    /\ ~fnCall.done
    /\ fnCall' = [fnCall EXCEPT !.done = TRUE,
                                !.result = validateCoordinate(fnCall.args[1], fnCall.args[2])]
    /\ UNCHANGED <<now, seed>>
    /\ UNCHANGED handlerVars

\* Historical series in hundredths: the series 1..5, one that sits on the
\* threshold, one whose share is no whole percent, and the empty one.
ProbabilitySeries ==
    { <<100, 200, 300, 400, 500>>, <<300, 300, 300>>, <<0, 700, 800>>, <<>> }

ThresholdDimensions == {"temperature", "precipitation", "windSpeed"}

ApplyCalculateProbabilities ==
    /\ fnCall.fn = "calculateProbabilities"
    /\ ~fnCall.done
    /\ fnCall' = [fnCall EXCEPT !.done = TRUE,
                                !.result = calculateProbabilities(fnCall.args[1], fnCall.args[2])]
    /\ UNCHANGED <<now, seed>>
    /\ UNCHANGED handlerVars

\* Temperatures, humidities and wind speeds in hundredths, at and beside
\* every threshold of calculateNASA_FeelsLike.
FeelsLikeTemps == {-500, 900, 1000, 1001, 1500, 1501, 2000, 2699, 2700, 2999, 3000, 3500}
FeelsLikeHumidities == {2000, 6500}
FeelsLikeWinds == {100, 134, 135, 200, 201, 500}

ApplyCalculateNASA_FeelsLike ==
    /\ fnCall.fn = "calculateNASA_FeelsLike"
    /\ ~fnCall.done
    /\ fnCall' = [fnCall EXCEPT !.done = TRUE,
                                !.result = calculateNASA_FeelsLike(fnCall.args[1], fnCall.args[2],
                                                                   fnCall.args[3], fnCall.args[4])]
    /\ UNCHANGED <<now, seed>>
    /\ UNCHANGED handlerVars

\* Weather objects as the generators build them, unformatted.
FormatterInputs ==
    UNION { { generateNASA_Model_Data(Num(lat), Num(10), isDesert),
              generateNASA_FromSatellite(Num(lat), Num(10), isDesert) } :
            lat \in {0, 20, 60}, isDesert \in BOOLEAN }

\* formatWeatherData applied to a weather object, and then to its own result.
ApplyFormatWeatherData ==
    /\ fnCall.fn = "formatWeatherData"
    /\ ~fnCall.done
    /\ fnCall' = [fnCall EXCEPT
                      !.done = TRUE,
                      !.result = [ once |-> formatWeatherData(fnCall.args[1]),
                                   twice |-> formatWeatherData(formatWeatherData(fnCall.args[1])) ]]
    /\ UNCHANGED <<now, seed>>
    /\ UNCHANGED handlerVars

\* Weather objects as the download route passes them (unformatted), and as
\* the formatter leaves them (humidity a percent string).
CSVInputs == FormatterInputs \cup {formatWeatherData(w) : w \in FormatterInputs}

ApplyConvertToCSV ==
    /\ fnCall.fn = "convertToCSV"
    /\ ~fnCall.done
    /\ fnCall' = [fnCall EXCEPT !.done = TRUE, !.result = convertToCSV(fnCall.args[1])]
    /\ UNCHANGED <<now, seed>>
    /\ UNCHANGED handlerVars

\* The places an adapter is called for: a desert point and a point that is none.
AdapterPlaces ==
    { [lat |-> Num(20), lon |-> Num(10), isDesert |-> TRUE],
      [lat |-> Num(60), lon |-> Num(10), isDesert |-> FALSE] }

\* A calm day at the freezing point: genuine zeros in T2M and WS10M.
PowerZeroBody ==
    PowerPayload([T2M |-> PowerParam(0), WS10M |-> PowerParam(0)] @@ BasePowerParams)

ApplyTryNASA_POWER ==
    /\ fnCall.fn = "tryNASA_POWER"
    /\ ~fnCall.done
    /\ fnCall' = [fnCall EXCEPT !.done = TRUE,
                                !.result = tryNASA_POWER(fnCall.args[1], fnCall.args[2],
                                                         fnCall.args[3], fnCall.args[4])]
    /\ UNCHANGED <<now, seed>>
    /\ UNCHANGED handlerVars

\* GMAO payloads processGMAO_Data is called with: forecast an array of days.
GmaoForecasts ==
    { [forecast |-> [isArray |-> TRUE, items |-> items]] :
        items \in SeqsUpTo({GmaoGoodDay, GmaoSparseDay}, MaxGmaoDays) }

ApplyProcessGMAO_Data ==
    /\ fnCall.fn = "processGMAO_Data"
    /\ ~fnCall.done
    /\ fnCall' = [fnCall EXCEPT !.done = TRUE,
                                !.result = processGMAO_Data(fnCall.args[1], fnCall.args[2],
                                                            fnCall.args[3], fnCall.args[4])]
    /\ UNCHANGED <<now, seed>>
    /\ UNCHANGED handlerVars

(***************************************************************************)
(* Specifications.                                                         *)
(***************************************************************************)
InitHandler ==
    /\ pc = "idle"
    /\ req = [route |-> "none", lat |-> QMissing, lon |-> QMissing,
              thresholds |-> [k |-> "missing", val |-> EmptyObject], format |-> "missing"]
    /\ coords = [lat |-> Null, lon |-> Null, isDesert |-> FALSE]
    /\ userThresholds = EmptyObject
    /\ formattedData = Null
    /\ inflight = {}
    /\ calls = [t \in Targets \cup {"SEARCH"} |-> 0]
    /\ settled = [target |-> "none", outcome |-> Outcome("none")]
    /\ ret = [t \in Providers |-> "none"]
    /\ tried = <<>>
    /\ responses = <<>>

Init ==
    /\ InitHandler
    /\ now \in Clocks
    /\ seed \in Seeds
    /\ fnCall = NoCall

Next ==
    \/ WeatherRequest
    \/ DownloadRequest
    \/ UnmatchedRequest
    \/ SearchRequest
    \/ SearchResponds
    \/ PowerResponds
    \/ PowerTimesOut
    \/ GmaoResponds
    \/ GmaoTimesOut
    \/ WorldviewResponds
    \/ WorldviewTimesOut
    \/ GeoResponds
    \/ ModelGeoResponds

Spec == Init /\ [][Next]_vars

\* The event loop runs a handler whose await has settled, and a timer that
\* was set fires; nothing makes a remote service answer.
\* Whether a request is answered does not depend on the clock or on
\* the random draws, so one of each is followed.
InitFair ==
    /\ InitHandler
    /\ now = [month |-> 3, hour |-> 6, today |-> 100]
    /\ seed = "lo"
    /\ fnCall = NoCall

FairSpec ==
    /\ InitFair /\ [][Next]_vars
    /\ WF_vars(PowerTimesOut)
    /\ WF_vars(GmaoTimesOut)
    /\ WF_vars(WorldviewTimesOut)

InitFn ==
    /\ InitHandler
    /\ now \in Clocks
    /\ seed \in Seeds
    /\ \/ \E lat \in DesertLatPoints, lon \in DesertLonPoints :
             fnCall = [fn |-> "isDesertRegion", args |-> <<Num(lat), Num(lon)>>,
                       done |-> FALSE, result |-> FALSE]
       \/ \E value \in ValidityInputs :
             fnCall = [fn |-> "isValidNASAValue", args |-> <<value>>,
                       done |-> FALSE, result |-> FALSE]
       \/ \E coord \in CoordinateInputs, type \in {"lat", "lon"} :
             fnCall = [fn |-> "validateCoordinate", args |-> <<coord, type>>,
                       done |-> FALSE, result |-> FALSE]
       \/ \E present \in SUBSET ThresholdDimensions, threshold \in {0, 300} :
          \E st \in ProbabilitySeries, sp \in ProbabilitySeries, sw \in ProbabilitySeries :
             fnCall = [fn |-> "calculateProbabilities",
                       args |-> << [d \in present |-> threshold],
                                   [temperature |-> st, precipitation |-> sp, wind |-> sw] >>,
                       done |-> FALSE, result |-> FALSE]
       \/ \E temp \in FeelsLikeTemps, humidity \in FeelsLikeHumidities,
             windSpeed \in FeelsLikeWinds, isDesert \in BOOLEAN :
             fnCall = [fn |-> "calculateNASA_FeelsLike",
                       args |-> <<temp, humidity, windSpeed, isDesert>>,
                       done |-> FALSE, result |-> FALSE]
       \/ \E weatherObj \in FormatterInputs :
             fnCall = [fn |-> "formatWeatherData", args |-> <<weatherObj>>,
                       done |-> FALSE, result |-> FALSE]
       \/ \E weatherData \in CSVInputs :
             fnCall = [fn |-> "convertToCSV", args |-> <<weatherData>>,
                       done |-> FALSE, result |-> FALSE]
       \/ \E o \in PowerOutcomes \cup {JsonOutcome(PowerZeroBody)}, place \in AdapterPlaces :
             fnCall = [fn |-> "tryNASA_POWER",
                       args |-> <<o, place.lat, place.lon, place.isDesert>>,
                       done |-> FALSE, result |-> FALSE]
       \/ \E gmaoData \in GmaoForecasts, place \in AdapterPlaces :
             fnCall = [fn |-> "processGMAO_Data",
                       args |-> <<gmaoData, place.lat, place.lon, place.isDesert>>,
                       done |-> FALSE, result |-> FALSE]

NextFn ==
    \/ ApplyIsDesertRegion
    \/ ApplyTryNASA_POWER
    \/ ApplyProcessGMAO_Data
    \/ ApplyConvertToCSV
    \/ ApplyFormatWeatherData
    \/ ApplyCalculateNASA_FeelsLike
    \/ ApplyCalculateProbabilities
    \/ ApplyValidateCoordinate
    \/ ApplyIsValidNASAValue

FnSpec == InitFn /\ [][NextFn]_vars

(***************************************************************************)
(* Properties.                                                             *)
(***************************************************************************)
IsWeather == req.route = "weather"
Sent(i) == responses[i]
IsPrefix(a, b) == Len(a) <= Len(b) /\ \A i \in DOMAIN a : a[i] = b[i]
SourceOrder == <<"POWER", "GMAO", "WORLDVIEW", "MODEL">>
Position(src) == CHOOSE i \in DOMAIN SourceOrder : SourceOrder[i] = src
Tried(src) == \E i \in DOMAIN tried : tried[i] = src

\* C1: in one GET /weather request the sources are tried in the order POWER,
\* GMAO, Worldview, synthetic model; each is tried only after every earlier
\* adapter returned null, and nothing is tried after an adapter returned data.
C1_FallbackOrder ==
    IsWeather =>
        /\ IsPrefix(tried, SourceOrder)
        /\ \A i \in DOMAIN tried : \A j \in 1..(i - 1) : ret[SourceOrder[j]] = "null"
        /\ \A p \in Providers : ret[p] = "data" => ~\E q \in DOMAIN tried : q > Position(p)

WeatherSnapshotFields ==
    {"temperature", "temperature_max", "temperature_min", "humidity", "wind_speed",
     "precipitation", "pressure", "conditions", "weather_code", "feels_like"}

\* C2: when all three adapters returned null, the response is 200 with a
\* current record that has every WeatherSnapshot field, a forecast, and
\* data_source "NASA Climate Simulation".
C2_AllFailedFullyPopulated ==
    (IsWeather /\ pc = "done" /\ \A p \in Providers : ret[p] = "null") =>
        /\ Len(responses) = 1
        /\ Sent(1).status = 200
        /\ {"current", "forecast", "data_source"} \subseteq DOMAIN Sent(1).body
        /\ WeatherSnapshotFields \subseteq DOMAIN Sent(1).body.current
        /\ Len(Sent(1).body.forecast) > 0
        /\ Sent(1).body.data_source = "NASA Climate Simulation"

\* The outcomes C3 lists: a transport failure (the timeout included), a
\* non-success status, a body that is no JSON, a body of the wrong structure,
\* a payload that lacks a parameter object.
IsProviderFailure(target, o) ==
    IF o.kind # "json" THEN o.kind \in {"timeout", "network_error", "http_error", "bad_json"}
    ELSE IF o.body = Null THEN TRUE
    ELSE IF target = "POWER"
         THEN IF "properties" \notin DOMAIN o.body THEN TRUE
              ELSE IF "parameter" \notin DOMAIN o.body.properties THEN TRUE
              ELSE ~(PowerParameters \subseteq DOMAIN o.body.properties.parameter)
    ELSE IF target = "GMAO"
         THEN IF "forecast" \notin DOMAIN o.body THEN TRUE
              ELSE IF ~o.body.forecast.isArray THEN TRUE
              ELSE \E i \in DOMAIN o.body.forecast.items : o.body.forecast.items[i] = Null
    ELSE FALSE

\* C3: an adapter whose outbound call failed returned null (it did not throw),
\* and no error response is sent for it: GET /weather answers 200, and the
\* download answers no 500.
C3_SoftFailure ==
    (settled.target \in Providers /\ IsProviderFailure(settled.target, settled.outcome)) =>
        /\ ret[settled.target] = "null"
        /\ \A i \in DOMAIN responses :
              /\ Sent(i).status # 500
              /\ IsWeather => Sent(i).status = 200

C3_Witness ==
    /\ IsWeather /\ pc = "done"
    /\ settled.target = "WORLDVIEW" /\ settled.outcome.kind = "timeout"
    /\ \A p \in Providers : ret[p] = "null"
    /\ Len(responses) = 1 /\ Sent(1).status = 200

WeatherAccepted == IsWeather /\ ~QFalsy(req.lat) /\ ~QFalsy(req.lon)

\* C4: every GET /weather request with lat and lon eventually has exactly one
\* response, whatever the outbound services do.
C4_EventuallyResponds == [](WeatherAccepted => <>(pc = "done" /\ Len(responses) = 1))

\* C5: each provider is called at most once in a request, at most one provider
\* call is in flight, and a provider call in flight was started after every
\* earlier provider's call had completed.
C5_SequentialNoRetry ==
    /\ \A p \in Providers : calls[p] <= 1
    /\ Cardinality(inflight \cap Providers) <= 1
    /\ \A p \in inflight \cap Providers :
          \A j \in 1..(Position(p) - 1) :
              ret[SourceOrder[j]] # "none" /\ SourceOrder[j] \notin inflight

C5_Witness ==
    /\ IsWeather /\ pc = "WORLDVIEW"
    /\ inflight = {"WORLDVIEW"}
    /\ \A p \in Providers : calls[p] = 1

\* lat is no number, or lies outside [-90, 90].
LatInvalid(q) == q.k # "num" \/ q.n < -90 \/ q.n > 90

\* C6: a GET /weather request whose lat is invalid is answered with an error
\* code, not with weather data.
C6_InvalidLatRejected ==
    (WeatherAccepted /\ LatInvalid(req.lat) /\ pc = "done") =>
        /\ Len(responses) = 1
        /\ Sent(1).status >= 400
        /\ "current" \notin DOMAIN Sent(1).body

\* C7: a request of either route that lacks lat or lon is answered with the
\* QUERY_MISSING_ERR entry of the error table, and no provider, synthetic
\* model or geocoding step runs for it.
C7_QueryMissing ==
    (req.route \in {"weather", "download"} /\ (QFalsy(req.lat) \/ QFalsy(req.lon))) =>
        /\ pc = "done"
        /\ responses =
              << [ status |-> ERR.QUERY_MISSING_ERR.HTTP_ERR_CODE, kind |-> "json",
                   body |-> [ HTTP_ERR_CODE |-> ERR.QUERY_MISSING_ERR.HTTP_ERR_CODE,
                              ERR_MESSAGE |-> ERR.QUERY_MISSING_ERR.ERR_MESSAGE ] ] >>
        /\ tried = <<>>
        /\ inflight = {}
        /\ \A t \in Targets : calls[t] = 0

C7_Witness ==
    /\ req.route = "download" /\ pc = "done"
    /\ ~QFalsy(req.lat) /\ req.lon = QMissing
    /\ Len(responses) = 1 /\ Sent(1).status = 400

MetadataFields ==
    {"current", "forecast", "location", "coordinates", "data_source", "nasa_mission",
     "climate_note", "units", "timestamp"}

\* C8: every 200 response of GET /weather carries current, forecast and the
\* metadata fields, with location a string.
C8_FullBody ==
    IsWeather =>
        \A i \in DOMAIN responses :
            Sent(i).status = 200 =>
                /\ MetadataFields \subseteq DOMAIN Sent(i).body
                /\ Sent(i).body.location.t = "str"

\* C9: the forecast of every 200 response of GET /weather has exactly 7
\* records, dated today, today + 1, ..., today + 6.
C9_SevenDays ==
    IsWeather =>
        \A i \in DOMAIN responses :
            Sent(i).status = 200 =>
                /\ Len(Sent(i).body.forecast) = 7
                /\ \A d \in 1..7 : Sent(i).body.forecast[d].date = now.today + d - 1

\* The table of section 4.2, box by box, every bound inclusive.
InDesertTable(lat, lon) ==
    \/ (15 <= lat /\ lat <= 30 /\ -20 <= lon /\ lon <= 50)
    \/ (15 <= lat /\ lat <= 30 /\ 35 <= lon /\ lon <= 60)
    \/ (35 <= lat /\ lat <= 50 /\ 85 <= lon /\ lon <= 120)
    \/ (-30 <= lat /\ lat <= -20 /\ 120 <= lon /\ lon <= 150)
    \/ (25 <= lat /\ lat <= 40 /\ -120 <= lon /\ lon <= -100)
    \/ (-25 <= lat /\ lat <= -15 /\ 15 <= lon /\ lon <= 25)
    \/ (20 <= lat /\ lat <= 30 /\ 65 <= lon /\ lon <= 75)
    \/ (30 <= lat /\ lat <= 35 /\ 35 <= lon /\ lon <= 45)

\* C10: isDesertRegion(lat, lon) is true exactly when the point lies in one
\* of the 8 boxes of the desert table, bounds included.
C10_DesertIffInBox ==
    (fnCall.fn = "isDesertRegion" /\ fnCall.done) =>
        (fnCall.result <=> InDesertTable(fnCall.args[1].v, fnCall.args[2].v))

\* The north-east corner of the Gobi box, which lies in no other box.
C10_Witness ==
    /\ fnCall.fn = "isDesertRegion" /\ fnCall.done
    /\ fnCall.args = <<Num(50), Num(120)>>
    /\ fnCall.result = TRUE

\* C11: isValidNASAValue(value) is false for undefined, null, -999 and every
\* value below -900, and true for every other number, -900 included.
C11_ValidUnlessSentinel ==
    (fnCall.fn = "isValidNASAValue" /\ fnCall.done) =>
        LET value == fnCall.args[1]
        IN  fnCall.result <=>
                ~(\/ value = Undefined
                  \/ value = Null
                  \/ value.v = -99900
                  \/ value.v < -90000)

ProbabilityKey(d) ==
    CASE d = "temperature" -> "temperature_above"
      [] d = "precipitation" -> "precipitation_above"
      [] d = "windSpeed" -> "windspeed_above"
SeriesKey(d) == IF d = "windSpeed" THEN "wind" ELSE d

\* p is count / n * 100 rounded to the nearest integer (a half rounds up).
IsNearestPercent(p, count, n) ==
    /\ 2 * (100 * count - p * n) <= n
    /\ 2 * (p * n - 100 * count) < n

\* C13: the output has a key exactly for each threshold dimension present, and
\* its value is the share of the samples of that dimension's series strictly
\* greater than the threshold, as a percentage rounded to the nearest integer.
C13_ProbabilityPerThreshold ==
    (fnCall.fn = "calculateProbabilities" /\ fnCall.done) =>
        LET thresholds == fnCall.args[1]
            historicalData == fnCall.args[2]
        IN  /\ DOMAIN fnCall.result = {ProbabilityKey(d) : d \in DOMAIN thresholds}
            /\ \A d \in DOMAIN thresholds :
                  LET series == historicalData[SeriesKey(d)]
                      above == {i \in DOMAIN series : series[i] > thresholds[d]}
                  IN  Len(series) > 0 =>
                          IsNearestPercent(fnCall.result[ProbabilityKey(d)],
                                           Cardinality(above), Len(series))

\* The series 1, 2, 3, 4, 5 with threshold 3 gives 40, and the two absent
\* dimensions give no key.
C13_Witness ==
    /\ fnCall.fn = "calculateProbabilities" /\ fnCall.done
    /\ DOMAIN fnCall.args[1] = {"temperature"}
    /\ fnCall.args[1].temperature = 300
    /\ fnCall.args[2].temperature = <<100, 200, 300, 400, 500>>
    /\ DOMAIN fnCall.result = {"temperature_above"}
    /\ fnCall.result.temperature_above = 40

\* C14: calculateNASA_FeelsLike takes exactly one branch: desert heat at 30
\* and above, desert wind chill at 15 and below with wind above 2, heat index
\* at 27 and above, wind chill at 10 and below with wind above 1.34, and the
\* temperature itself in every other case.
C14_FeelsLikeBranches ==
    (fnCall.fn = "calculateNASA_FeelsLike" /\ fnCall.done) =>
        LET temp == fnCall.args[1]
            humidity == fnCall.args[2]
            windSpeed == fnCall.args[3]
            isDesert == fnCall.args[4]
            desertHeat == isDesert /\ temp >= 3000
            desertChill == isDesert /\ temp <= 1500 /\ windSpeed > 200
            heatIndex == ~isDesert /\ temp >= 2700
            chill == ~isDesert /\ temp <= 1000 /\ windSpeed > 134
        IN  /\ desertHeat => fnCall.result = temp + (temp - 2500) \div 10
            /\ desertChill => fnCall.result = WindChill(temp, windSpeed)
            /\ heatIndex => fnCall.result = temp + (humidity * (temp - 2000)) \div 20000
            /\ chill => fnCall.result = WindChill(temp, windSpeed)
            /\ ~(desertHeat \/ desertChill \/ heatIndex \/ chill) => fnCall.result = temp

\* Desert, 35 degrees, 20 % humidity, wind 1 m/s: 36.0.
C14_Witness ==
    /\ fnCall.fn = "calculateNASA_FeelsLike" /\ fnCall.done
    /\ fnCall.args = <<3500, 2000, 100, TRUE>>
    /\ fnCall.result = 3600

\* C15: formatWeatherData applied to an already formatted weather object
\* gives the same current record and the same forecast days as the first
\* application.
C15_FormatterIdempotent ==
    (fnCall.fn = "formatWeatherData" /\ fnCall.done) =>
        /\ fnCall.result.twice.current = fnCall.result.once.current
        /\ fnCall.result.twice.forecast = fnCall.result.once.forecast

\* The text of a value in a CSV field: a percent string without its suffix,
\* any other value as it is.
FieldOf(value) == IF value.t = "pct" THEN Num(value.v * 100) ELSE value

\* C16: convertToCSV gives the 9 column names in their order, and one row per
\* forecast day with that day's values in the same order, a 0 written as 0
\* and a percent-string humidity without its suffix.
C16_CSVRows ==
    (fnCall.fn = "convertToCSV" /\ fnCall.done) =>
        LET forecast == fnCall.args[1].forecast
            rows == fnCall.result.rows
        IN  /\ fnCall.result.headers =
                  << "Date", "Temperature_C", "Max_Temp_C", "Min_Temp_C", "Precipitation_mm",
                     "Wind_Speed_m/s", "Humidity_%", "Pressure_hPa", "Conditions" >>
            /\ DOMAIN rows = DOMAIN forecast
            /\ \A i \in DOMAIN forecast :
                  rows[i] = << [t |-> "date", v |-> forecast[i].date],
                               FieldOf(forecast[i].temperature),
                               FieldOf(forecast[i].max_temp),
                               FieldOf(forecast[i].min_temp),
                               FieldOf(forecast[i].precipitation),
                               FieldOf(forecast[i].wind_speed),
                               FieldOf(forecast[i].humidity),
                               FieldOf(forecast[i].pressure),
                               [t |-> "text", v |-> 0, s |-> forecast[i].conditions] >>

\* A provider value the sentinel rule accepts: a number that is not -999 and
\* not below -900.
IsValidProviderValue(value) ==
    value.t = "num" /\ value.v # -99900 /\ value.v >= -90000

\* The snapshot field each POWER parameter and each GMAO day field feeds.
PowerFieldOf ==
    [ T2M |-> "temperature", T2M_MAX |-> "temperature_max", T2M_MIN |-> "temperature_min",
      RH2M |-> "humidity", WS10M |-> "wind_speed", WS50M |-> "wind_speed_50m",
      PRECTOTCORR |-> "precipitation", PS |-> "pressure",
      ALLSKY_SFC_SW_DWN |-> "solar_radiation", CLOUD_AMT |-> "cloud_cover" ]
GmaoFieldOf ==
    [ temperature |-> "temperature", humidity |-> "humidity", wind_speed |-> "wind_speed",
      precipitation |-> "precipitation", pressure |-> "pressure",
      temp_max |-> "max_temp", temp_min |-> "min_temp" ]

\* C17: a snapshot field whose provider value is valid equals that value, a
\* genuine 0 included, for the current record of POWER and for every forecast
\* day of GMAO.
C17_ValidValueKept ==
    /\ (fnCall.fn = "tryNASA_POWER" /\ fnCall.done /\ fnCall.result.value # Null) =>
          LET params == fnCall.args[1].body.properties.parameter
          IN  \A param \in DOMAIN PowerFieldOf :
                  (params[param].has /\ IsValidProviderValue(params[param].val)) =>
                      fnCall.result.value.current[PowerFieldOf[param]] = params[param].val
    /\ (fnCall.fn = "processGMAO_Data" /\ fnCall.done) =>
          LET items == fnCall.args[1].forecast.items
          IN  \A i \in DOMAIN items :
                  \A field \in DOMAIN GmaoFieldOf \cap DOMAIN items[i] :
                      IsValidProviderValue(items[i][field]) =>
                          fnCall.result.forecast[i][GmaoFieldOf[field]] = items[i][field]

\* C18: for a GMAO forecast array of n days, processGMAO_Data returns n days
\* in the order of the input, dated today, today + 1, ..., and a current
\* record that repeats the seven fields of forecast day 0.
C18_GmaoDayPerDay ==
    (fnCall.fn = "processGMAO_Data" /\ fnCall.done) =>
        LET items == fnCall.args[1].forecast.items
            forecast == fnCall.result.forecast
        IN  /\ Len(forecast) = Len(items)
            /\ \A i \in DOMAIN items :
                  /\ forecast[i].date = now.today + i - 1
                  /\ \A field \in DOMAIN GmaoFieldOf \cap DOMAIN items[i] :
                        (IsValidProviderValue(items[i][field]) /\ items[i][field].v # 0) =>
                            forecast[i][GmaoFieldOf[field]] = items[i][field]
            /\ Len(items) > 0 =>
                  \A field \in {"temperature", "feels_like", "humidity", "wind_speed",
                                 "pressure", "conditions", "weather_code"} :
                      fnCall.result.current[field] = forecast[1][field]

\* Two days in, a sparse day after a full one: two days out, current from the full one.
C18_Witness ==
    /\ fnCall.fn = "processGMAO_Data" /\ fnCall.done
    /\ fnCall.args[1].forecast.items = <<GmaoGoodDay, GmaoSparseDay>>
    /\ Len(fnCall.result.forecast) = 2
    /\ fnCall.result.forecast[2].date = now.today + 1
    /\ fnCall.result.current.temperature = Num(1850)

\* C19: a request for a path that matches no mounted router is answered with
\* the NON_EXISTENT_ENDPOINT entry of the error table.
C19_UnmatchedGets404 ==
    (req.route \in UnmatchedPaths /\ pc = "done") =>
        responses =
            << [ status |-> ERR.NON_EXISTENT_ENDPOINT.HTTP_ERR_CODE, kind |-> "json",
                 body |-> [ HTTP_ERR_CODE |-> ERR.NON_EXISTENT_ENDPOINT.HTTP_ERR_CODE,
                            ERR_MESSAGE |-> ERR.NON_EXISTENT_ENDPOINT.ERR_MESSAGE ] ] >>

\* C20: a request of either route whose lat is a number in [-90, 90] and whose
\* lon is a number, 0 included, has its coordinates accepted: POWER is called
\* for it.
C20_ZeroCoordinatesAccepted ==
    ( /\ req.route \in {"weather", "download"}
      /\ req.lat.k = "num" /\ -90 <= req.lat.n /\ req.lat.n <= 90
      /\ req.lon.k = "num" ) =>
        /\ calls.POWER = 1
        /\ Len(tried) > 0 /\ tried[1] = "POWER"

\* C21: in a 200 response of GET /weather, data_source is "NASA Climate
\* Simulation" exactly when all three adapters returned null, and it is another
\* name when an adapter returned data.
C21_DataSourceNamesSource ==
    IsWeather =>
        \A i \in DOMAIN responses :
            Sent(i).status = 200 =>
                /\ "data_source" \in DOMAIN Sent(i).body
                /\ (Sent(i).body.data_source = "NASA Climate Simulation")
                      <=> (\A p \in Providers : ret[p] = "null")

RainLabels == {"Drizzle", "Light Rain", "Rain", "Heavy Rain"}
RainCodes == {"09", "10", "11"}

\* C22: in a current record built by tryNASA_POWER, conditions is a rain label
\* exactly when precipitation is above 0, and exactly when weather_code is
\* "09" or higher, whether the precipitation came from the payload or from a
\* default.
C22_ConditionsMatchCode ==
    (fnCall.fn = "tryNASA_POWER" /\ fnCall.done /\ fnCall.result.value # Null) =>
        LET current == fnCall.result.value.current
        IN  /\ (current.conditions \in RainLabels) <=> (current.precipitation.v > 0)
            /\ (current.precipitation.v > 0) <=> (current.weather_code \in RainCodes)

\* min <= temperature <= max for three numbers.
Ordered(min, temperature, max) == min.v <= temperature.v /\ temperature.v <= max.v

ForecastOrdered(forecast) ==
    \A i \in DOMAIN forecast :
        Ordered(forecast[i].min_temp, forecast[i].temperature, forecast[i].max_temp)

\* C23: min_temp <= temperature <= max_temp in every forecast day of POWER,
\* of GMAO and of the synthetic model, and temperature_min <= temperature <=
\* temperature_max in the current record of POWER.
C23_MinTempMax ==
    /\ (fnCall.fn = "tryNASA_POWER" /\ fnCall.done /\ fnCall.result.value # Null) =>
          /\ ForecastOrdered(fnCall.result.value.forecast)
          /\ Ordered(fnCall.result.value.current.temperature_min,
                     fnCall.result.value.current.temperature,
                     fnCall.result.value.current.temperature_max)
    /\ (fnCall.fn = "processGMAO_Data" /\ fnCall.done) =>
          ForecastOrdered(fnCall.result.forecast)
    /\ (fnCall.fn = "formatWeatherData" /\ fnCall.done) =>
          ForecastOrdered(fnCall.args[1].forecast)

\* C24: when the geocoding request of GET /search fails, the handler sends
\* exactly one response, with the API_FETCH_FAILED code, and then completes
\* without raising; when citySrch is missing it sends the CITY_QUERY_MISSING
\* response and starts no outbound call.
C24_SearchFailureHandled ==
    (req.route = "search" /\ pc # "SEARCH") =>
        /\ QFalsy(req.citySrch) =>
              /\ responses = <<ErrorResponse(ERR.CITY_QUERY_MISSING)>>
              /\ calls["SEARCH"] = 0
              /\ pc = "done"
        /\ (settled.target = "SEARCH"
              /\ settled.outcome.kind \in {"network_error", "http_error"}) =>
              /\ Len(responses) = 1
              /\ responses[1].status = ERR.API_FETCH_FAILED.HTTP_ERR_CODE
              /\ pc = "done"

====
